---- MODULE Spec2Model ----
(***************************************************************************)
(* Model of selfdrive/car/gm/interface.py: the per-cycle button / threshold *)
(* event derivation of CarInterface._update and the steering feed-forward   *)
(* models with their per-fingerprint selection.                             *)
(*                                                                          *)
(* Real numbers (speeds, angles, feed-forward output) are fixed-point       *)
(* integers in units of 1/SCALE; every multiplication and division rounds   *)
(* to the nearest unit, ties to even, on the magnitude, as IEEE-754         *)
(* round-to-nearest does.                                                   *)
(***************************************************************************)
EXTENDS Integers, Sequences, FiniteSets, TLC

VARIABLES
  candidate,            \* the vehicle identifier the interface was built for
  CP,                   \* self.CP: the parameters get_params made for it
  cruise_buttons,       \* self.CS.cruise_buttons
  prev_cruise_buttons,  \* self.CS.prev_cruise_buttons
  ret,                  \* the car.CarState the last _update returned
  cycle,                \* number of _update calls so far, saturating at MaxCycle
  ff_fn,                \* function returned by get_steer_feedforward_function
  ff_angle,             \* desired_angle of the last feed-forward call
  ff_speed,             \* v_ego of the last feed-forward call
  ff_out                \* value the last feed-forward call returned

vars == <<candidate, CP, cruise_buttons, prev_cruise_buttons, ret, cycle,
          ff_fn, ff_angle, ff_speed, ff_out>>

-----------------------------------------------------------------------------
(* Bounds *)

\* _update calls are counted up to here; later cycles keep this count
MaxCycle == 2

\* feed-forward calls use desired_angle in -MaxAngle..MaxAngle degrees
MaxAngle == 3

\* feed-forward calls use v_ego in 0..MaxSpeedSteps half metres per second
MaxSpeedSteps == 3

-----------------------------------------------------------------------------
(* Fixed-point arithmetic *)

\* limb base of the wide multiplication
LIMB == 10 ^ 4

\* units per 1.0
SCALE == LIMB * LIMB

Abs(x) == IF x < 0 THEN -x ELSE x

Sgn(x) == IF x < 0 THEN -1 ELSE 1

\* round the non-negative quotient q, with remainder r of a division by d
RoundHalfEven(q, r, d) ==
  IF 2 * r > d \/ (2 * r = d /\ q % 2 = 1) THEN q + 1 ELSE q

\* x * y of two fixed-point numbers, rounded to the nearest unit
MulFix(x, y) ==
  LET ax == Abs(x)
      ay == Abs(y)
      xh == ax \div LIMB
      xl == ax % LIMB
      yh == ay \div LIMB
      yl == ay % LIMB
      mid == xh * yl + xl * yh
      low == (mid % LIMB) * LIMB + xl * yl
      q == xh * yh + (mid \div LIMB) + (low \div SCALE)
      r == low % SCALE
  IN  Sgn(x) * Sgn(y) * RoundHalfEven(q, r, SCALE)

\* decimal long division of r by d (0 <= r < d): n more digits appended to
\* the quotient q, paired with the remainder left over
RECURSIVE LongDiv(_, _, _, _)
LongDiv(q, r, d, n) ==
  IF n = 0 THEN <<q, r>>
  ELSE LongDiv(10 * q + ((10 * r) \div d), (10 * r) % d, d, n - 1)

\* x / y of two fixed-point numbers (y # 0), rounded to the nearest unit
DivFix(x, y) ==
  LET ax == Abs(x)
      ay == Abs(y)
      qr == LongDiv(ax \div ay, ax % ay, ay, 8)
  IN  Sgn(x) * Sgn(y) * RoundHalfEven(qr[1], qr[2], ay)

\* Python's math.fabs
fabs(x) == Abs(x)

-----------------------------------------------------------------------------
(* Feed-forward steering models *)

\* 0.02904609, 0.10006696, 3.12485927 of get_steer_feedforward_volt
VOLT_ANGLE_GAIN == 2904609
VOLT_GAIN == 10006696
VOLT_SPEED_OFFSET == 312485927

\* 0.09760208, 0.04689655, 10.028217 of get_steer_feedforward_acadia
ACADIA_ANGLE_GAIN == 9760208
ACADIA_GAIN == 4689655
ACADIA_SPEED_OFFSET == 1002821700

\* the Volt model with the sigmoid's fabs left out
get_steer_feedforward_volt_no_fabs(desired_angle, v_ego) ==
  LET angle   == MulFix(desired_angle, VOLT_ANGLE_GAIN)
      sigmoid == DivFix(angle, SCALE + angle)
  IN  MulFix(MulFix(VOLT_GAIN, sigmoid), v_ego + VOLT_SPEED_OFFSET)

get_steer_feedforward_volt(desired_angle, v_ego) ==
  LET angle   == MulFix(desired_angle, VOLT_ANGLE_GAIN)
      sigmoid == DivFix(angle, SCALE + fabs(angle))
  IN  MulFix(MulFix(VOLT_GAIN, sigmoid), v_ego + VOLT_SPEED_OFFSET)

get_steer_feedforward_acadia(desired_angle, v_ego) ==
  LET angle   == MulFix(desired_angle, ACADIA_ANGLE_GAIN)
      sigmoid == DivFix(angle, SCALE + fabs(angle))
  IN  MulFix(MulFix(ACADIA_GAIN, sigmoid), v_ego + ACADIA_SPEED_OFFSET)

\* CarInterfaceBase.get_steer_feedforward_default: desired_angle * v_ego ** 2
get_steer_feedforward_default(desired_angle, v_ego) ==
  MulFix(desired_angle, MulFix(v_ego, v_ego))

-----------------------------------------------------------------------------
(* Vehicle identifiers and parameters *)

\* the members of values.CAR this file names
CAR == [
  HOLDEN_ASTRA |-> "HOLDEN_ASTRA", VOLT |-> "VOLT", VOLT_NR |-> "VOLT_NR",
  CADILLAC_ATS |-> "CADILLAC_ATS", MALIBU |-> "MALIBU", MALIBU_NR |-> "MALIBU_NR",
  ACADIA |-> "ACADIA", ACADIA_NR |-> "ACADIA_NR", BUICK_REGAL |-> "BUICK_REGAL",
  ESCALADE_ESV |-> "ESCALADE_ESV", BOLT_NR |-> "BOLT_NR", EQUINOX_NR |-> "EQUINOX_NR",
  TAHOE_NR |-> "TAHOE_NR", SILVERADO_NR |-> "SILVERADO_NR", SUBURBAN |-> "SUBURBAN",
  BOLT_EUV |-> "BOLT_EUV" ]

Candidates == { CAR[k] : k \in DOMAIN CAR }

\* the vehicles whose sessions are run cycle by cycle: both values of pcmCruise,
\* of minEnableSpeed (18 mph, -1) and two of minSteerSpeed (7 mph, 5 mph)
SessionCandidates == { CAR.VOLT, CAR.ACADIA, CAR.BOLT_EUV }

\* CV.MPH_TO_MS = 0.44704
MPH_TO_MS == 44704000

\* the fields of CarParams that _update and the lateral controller read
get_params(c) ==
  LET base == [ carFingerprint |-> c,
                pcmCruise      |-> FALSE,
                minSteerSpeed  |-> 7 * MPH_TO_MS,
                minEnableSpeed |-> 18 * MPH_TO_MS,
                lateralTuning  |-> [which |-> "pid", kf |-> 4000] ]
      pidKf(k)   == [which |-> "pid", kf |-> k]
      torque(a)  == [which |-> "torque", kf |-> DivFix(SCALE, a)]
  IN  CASE c \in {CAR.VOLT, CAR.VOLT_NR} ->
             [base EXCEPT !.lateralTuning = pidKf(SCALE)]
        [] c \in {CAR.MALIBU, CAR.MALIBU_NR} -> base
        [] c = CAR.HOLDEN_ASTRA -> base
        [] c \in {CAR.ACADIA, CAR.ACADIA_NR} ->
             [base EXCEPT !.minEnableSpeed = -SCALE, !.lateralTuning = pidKf(SCALE)]
        [] c = CAR.BUICK_REGAL -> base
        [] c = CAR.CADILLAC_ATS -> base
        [] c = CAR.ESCALADE_ESV ->
             [base EXCEPT !.minEnableSpeed = -SCALE, !.lateralTuning = pidKf(4500)]
        [] c = CAR.BOLT_NR ->
             [base EXCEPT !.minEnableSpeed = -SCALE, !.minSteerSpeed = 5 * MPH_TO_MS,
                          !.lateralTuning = pidKf(20000)]
        [] c = CAR.EQUINOX_NR -> [base EXCEPT !.minEnableSpeed = 18 * MPH_TO_MS]
        [] c = CAR.TAHOE_NR ->
             [base EXCEPT !.minEnableSpeed = -SCALE, !.minSteerSpeed = -1 * MPH_TO_MS,
                          !.pcmCruise = TRUE, !.lateralTuning = torque(250000000)]
        [] c = CAR.SILVERADO_NR ->
             [base EXCEPT !.minEnableSpeed = -SCALE, !.minSteerSpeed = -1 * MPH_TO_MS,
                          !.pcmCruise = TRUE, !.lateralTuning = torque(250000000)]
        [] c = CAR.SUBURBAN ->
             [base EXCEPT !.minEnableSpeed = -SCALE, !.minSteerSpeed = -1 * MPH_TO_MS,
                          !.pcmCruise = TRUE, !.lateralTuning = torque(200000000)]
        [] c = CAR.BOLT_EUV ->
             [base EXCEPT !.minEnableSpeed = -SCALE, !.minSteerSpeed = 5 * MPH_TO_MS,
                          !.pcmCruise = TRUE, !.lateralTuning = pidKf(20000)]
        [] OTHER -> base

\* the feed-forward functions the lateral controller can be handed
FeedforwardFunctions ==
  {"get_steer_feedforward_volt", "get_steer_feedforward_acadia",
   "get_steer_feedforward_default"}

\* the selection with the Acadia branch handing back the Volt model
get_steer_feedforward_function_copied_branch(self_CP) ==
  IF self_CP.carFingerprint = CAR.VOLT THEN "get_steer_feedforward_volt"
  ELSE IF self_CP.carFingerprint = CAR.ACADIA THEN "get_steer_feedforward_volt"
  ELSE "get_steer_feedforward_default"

get_steer_feedforward_function(self_CP) ==
  IF self_CP.carFingerprint = CAR.VOLT THEN "get_steer_feedforward_volt"
  ELSE IF self_CP.carFingerprint = CAR.ACADIA THEN "get_steer_feedforward_acadia"
  ELSE "get_steer_feedforward_default"

\* calling the function reference fn with (desired_angle, v_ego)
Call(fn, desired_angle, v_ego) ==
  CASE fn = "get_steer_feedforward_volt" ->
         get_steer_feedforward_volt(desired_angle, v_ego)
    [] fn = "get_steer_feedforward_acadia" ->
         get_steer_feedforward_acadia(desired_angle, v_ego)
    [] fn = "get_steer_feedforward_default" ->
         get_steer_feedforward_default(desired_angle, v_ego)

-----------------------------------------------------------------------------
(* Buttons and events *)

\* the members of values.CruiseButtons this file names
CruiseButtons == [
  INIT |-> "INIT", UNPRESS |-> "UNPRESS", RES_ACCEL |-> "RES_ACCEL",
  DECEL_SET |-> "DECEL_SET", MAIN |-> "MAIN", CANCEL |-> "CANCEL" ]

\* the codes the button signal can carry: the named ones and one that has no name
ButtonCodes == { CruiseButtons[k] : k \in DOMAIN CruiseButtons } \cup {"UNDEFINED"}

ButtonType == [
  unknown |-> "unknown", accelCruise |-> "accelCruise", decelCruise |-> "decelCruise",
  altButton3 |-> "altButton3", cancel |-> "cancel" ]

EventName == [
  belowEngageSpeed |-> "belowEngageSpeed", resumeRequired |-> "resumeRequired",
  belowSteerSpeed |-> "belowSteerSpeed", buttonEnable |-> "buttonEnable",
  buttonCancel |-> "buttonCancel", doorOpen |-> "doorOpen", wrongGear |-> "wrongGear" ]

BUTTONS_DICT ==
  (CruiseButtons.RES_ACCEL :> ButtonType.accelCruise) @@
  (CruiseButtons.DECEL_SET :> ButtonType.decelCruise) @@
  (CruiseButtons.MAIN :> ButtonType.altButton3) @@
  (CruiseButtons.CANCEL :> ButtonType.cancel)

\* selfdrive.car.create_button_event
create_button_event(cur_but, prev_but, buttons_dict, unpressed) ==
  LET pressed == cur_but # unpressed
      but     == IF pressed THEN cur_but ELSE prev_but
  IN  [ pressed |-> pressed,
        type    |-> IF but \in DOMAIN buttons_dict THEN buttons_dict[but]
                    ELSE ButtonType.unknown ]

\* selfdrive.car.create_button_enable_events
RECURSIVE create_button_enable_events(_, _)
create_button_enable_events(buttonEvents, pcm_cruise) ==
  IF buttonEvents = <<>> THEN <<>>
  ELSE LET b == Head(buttonEvents)
           enable == IF /\ ~pcm_cruise
                        /\ b.type \in {ButtonType.accelCruise, ButtonType.decelCruise}
                        /\ ~b.pressed
                     THEN <<EventName.buttonEnable>> ELSE <<>>
           cancel == IF b.type = ButtonType.cancel
                     THEN <<EventName.buttonCancel>> ELSE <<>>
       IN  enable \o cancel \o create_button_enable_events(Tail(buttonEvents), pcm_cruise)

\* what create_common_events can hand back: events of other subsystems
CommonEvents ==
  { <<>>, <<EventName.doorOpen, EventName.wrongGear>> }

\* Events.add
add(events, event_name) == Append(events, event_name)

\* speeds a sample can carry: 3 m/s, 5 m/s and 18 mph exactly
Speeds == { 3 * SCALE, 5 * SCALE, 18 * MPH_TO_MS }

\* what the bus decoder hands to one cycle
RawSamples ==
  [ button : ButtonCodes, vEgo : Speeds, cruiseEnabled : BOOLEAN,
    standstill : BOOLEAN, cruiseStandstill : BOOLEAN ]

\* CarState.update: the buttons move one cycle back, and a new message is filled
CS_update(CS, sample) ==
  [ cruise_buttons      |-> sample.button,
    prev_cruise_buttons |-> CS.cruise_buttons,
    ret |-> [ vEgo |-> sample.vEgo,
              standstill |-> sample.standstill,
              cruiseState |-> [ enabled |-> sample.cruiseEnabled,
                                standstill |-> sample.cruiseStandstill ],
              buttonEvents |-> <<>>,
              events |-> <<>> ] ]

\* the button block with a guard g and a suppression test s of its own
button_block(CS, r, g, s) ==
  IF g
  THEN LET be == create_button_event(CS.cruise_buttons, CS.prev_cruise_buttons,
                                     BUTTONS_DICT, CruiseButtons.UNPRESS)
       IN  [r EXCEPT !.buttonEvents =
              << IF be.type = ButtonType.accelCruise /\ s
                 THEN [be EXCEPT !.type = ButtonType.unknown] ELSE be >>]
  ELSE r

\* the button block reporting presses only, no releases
update_buttonEvents_presses_only(CS, r) ==
  button_block(CS, r,
               /\ CS.cruise_buttons # CS.prev_cruise_buttons
               /\ CS.prev_cruise_buttons # CruiseButtons.INIT
               /\ CS.cruise_buttons # CruiseButtons.UNPRESS,
               r.cruiseState.enabled /\ r.standstill)

\* the button block without the test that the buttons changed
update_buttonEvents_no_change_test(CS, r) ==
  button_block(CS, r,
               CS.prev_cruise_buttons # CruiseButtons.INIT,
               r.cruiseState.enabled /\ r.standstill)

\* the button block without the test for INIT
update_buttonEvents_no_init_test(CS, r) ==
  button_block(CS, r,
               CS.cruise_buttons # CS.prev_cruise_buttons,
               r.cruiseState.enabled /\ r.standstill)

\* the button block suppressing on the cruise state's standstill flag
update_buttonEvents_cruise_standstill(CS, r) ==
  button_block(CS, r,
               /\ CS.cruise_buttons # CS.prev_cruise_buttons
               /\ CS.prev_cruise_buttons # CruiseButtons.INIT,
               r.cruiseState.enabled /\ r.cruiseState.standstill)

\* the button block reporting only the buttons BUTTONS_DICT knows
update_buttonEvents_mapped_only(CS, r) ==
  button_block(CS, r,
               /\ CS.cruise_buttons # CS.prev_cruise_buttons
               /\ CS.prev_cruise_buttons # CruiseButtons.INIT
               /\ (IF CS.cruise_buttons # CruiseButtons.UNPRESS
                   THEN CS.cruise_buttons ELSE CS.prev_cruise_buttons)
                     \in DOMAIN BUTTONS_DICT,
               r.cruiseState.enabled /\ r.standstill)

\* _update, the button block: ret after it
update_buttonEvents(CS, r) ==
  IF /\ CS.cruise_buttons # CS.prev_cruise_buttons
     /\ CS.prev_cruise_buttons # CruiseButtons.INIT
  THEN LET be == create_button_event(CS.cruise_buttons, CS.prev_cruise_buttons,
                                     BUTTONS_DICT, CruiseButtons.UNPRESS)
           suppressed ==
             IF be.type = ButtonType.accelCruise
                /\ (r.cruiseState.enabled /\ r.standstill)
             THEN [be EXCEPT !.type = ButtonType.unknown] ELSE be
       IN  [r EXCEPT !.buttonEvents = <<suppressed>>]
  ELSE r

\* the threshold tests with <= for the engage speed
update_thresholds_inclusive(events, r, self_CP) ==
  LET e1 == IF r.vEgo <= self_CP.minEnableSpeed
            THEN add(events, EventName.belowEngageSpeed) ELSE events
      e2 == IF r.cruiseState.standstill
            THEN add(e1, EventName.resumeRequired) ELSE e1
      e3 == IF r.vEgo < self_CP.minSteerSpeed
            THEN add(e2, EventName.belowSteerSpeed) ELSE e2
  IN  e3

\* the threshold tests with belowEngageSpeed raised on the falling edge only:
\* not when the message of the cycle before (ret) was below already
update_thresholds_edge(events, r, self_CP) ==
  LET e1 == IF r.vEgo < self_CP.minEnableSpeed
               /\ ~(cycle >= 1 /\ ret.vEgo < self_CP.minEnableSpeed)
            THEN add(events, EventName.belowEngageSpeed) ELSE events
      e2 == IF r.cruiseState.standstill
            THEN add(e1, EventName.resumeRequired) ELSE e1
      e3 == IF r.vEgo < self_CP.minSteerSpeed
            THEN add(e2, EventName.belowSteerSpeed) ELSE e2
  IN  e3

\* _update, the three threshold tests: the event list after them
update_thresholds(events, r, self_CP) ==
  LET e1 == IF r.vEgo < self_CP.minEnableSpeed
            THEN add(events, EventName.belowEngageSpeed) ELSE events
      e2 == IF r.cruiseState.standstill
            THEN add(e1, EventName.resumeRequired) ELSE e1
      e3 == IF r.vEgo < self_CP.minSteerSpeed
            THEN add(e2, EventName.belowSteerSpeed) ELSE e2
  IN  e3

\* the events with the button events put in front of the threshold events
update_events_buttons_first(common, r, self_CP) ==
  [r EXCEPT !.events =
     update_thresholds(
       common \o create_button_enable_events(r.buttonEvents, self_CP.pcmCruise),
       r, self_CP)]

\* _update, from create_common_events to to_msg: ret after it
update_events(common, r, self_CP) ==
  [r EXCEPT !.events =
     update_thresholds(common, r, self_CP)
       \o create_button_enable_events(r.buttonEvents, self_CP.pcmCruise)]

-----------------------------------------------------------------------------
(* The state machine *)

NoFunction == "none"

\* the interface as constructed for candidate c, before its first cycle
Constructed(c) ==
  /\ candidate = c
  /\ CP = get_params(c)
  /\ cruise_buttons = CruiseButtons.INIT
  /\ prev_cruise_buttons = CruiseButtons.INIT
  /\ ret = [ vEgo |-> 0, standstill |-> FALSE,
             cruiseState |-> [enabled |-> FALSE, standstill |-> FALSE],
             buttonEvents |-> <<>>, events |-> <<>> ]
  /\ cycle = 0
  /\ ff_fn = NoFunction
  /\ ff_angle = 0
  /\ ff_speed = 0
  /\ ff_out = 0

Init == \E c \in SessionCandidates : Constructed(c)

InitFF == \E c \in Candidates : Constructed(c)

\* _update returns r: the interface keeps the buttons of CS and the message
Return(CS, r) ==
  /\ cruise_buttons' = CS.cruise_buttons
  /\ prev_cruise_buttons' = CS.prev_cruise_buttons
  /\ ret' = r
  /\ cycle' = IF cycle < MaxCycle THEN cycle + 1 ELSE cycle
  /\ UNCHANGED <<candidate, CP, ff_fn, ff_angle, ff_speed, ff_out>>

\* _update after self.CS.update: the button block, then the events
update_after_CS(CS, common) ==
  Return(CS, update_events(common, update_buttonEvents(CS, CS.ret), CP))

\* one control cycle: CarInterface._update
_update(sample, common) ==
  update_after_CS(CS_update([cruise_buttons |-> cruise_buttons,
                             prev_cruise_buttons |-> prev_cruise_buttons], sample),
                  common)

\* the lateral controller asks for its feed-forward function
SelectFeedforward ==
  /\ ff_fn = NoFunction
  /\ ff_fn' = get_steer_feedforward_function(CP)
  /\ UNCHANGED <<candidate, CP, cruise_buttons, prev_cruise_buttons, ret, cycle,
                 ff_angle, ff_speed, ff_out>>

\* the lateral controller calls the function it was handed
CallFeedforward(desired_angle, v_ego) ==
  /\ ff_fn # NoFunction
  /\ ff_angle' = desired_angle
  /\ ff_speed' = v_ego
  /\ ff_out' = Call(ff_fn, desired_angle, v_ego)
  /\ UNCHANGED <<candidate, CP, cruise_buttons, prev_cruise_buttons, ret, cycle, ff_fn>>

Angles == { k * SCALE : k \in -MaxAngle..MaxAngle }

FeedforwardSpeeds == { k * (SCALE \div 2) : k \in 0..MaxSpeedSteps }

\* the control loop: one _update per cycle
Next ==
  \E sample \in RawSamples, common \in CommonEvents : _update(sample, common)

Spec == Init /\ [][Next]_vars

\* the lateral controller: selection once, then calls
NextFF ==
  \/ SelectFeedforward
  \/ \E desired_angle \in Angles, v_ego \in FeedforwardSpeeds :
       CallFeedforward(desired_angle, v_ego)

SpecFF == InitFF /\ [][NextFF]_vars

-----------------------------------------------------------------------------
(* Properties *)

Has(events, e) == \E i \in DOMAIN events : events[i] = e

Count(events, e) == Cardinality({ i \in DOMAIN events : events[i] = e })

\* the events of the three threshold tests, and those made from button events
ThresholdEventNames ==
  { EventName.belowEngageSpeed, EventName.resumeRequired, EventName.belowSteerSpeed }

ButtonEventNames == { EventName.buttonEnable, EventName.buttonCancel }

\* the button code the last cycle looked up in BUTTONS_DICT
LookedUp ==
  IF cruise_buttons # CruiseButtons.UNPRESS THEN cruise_buttons ELSE prev_cruise_buttons

\* C1 as stated: from the second cycle on, every cycle whose button code
\* differs from the code of the cycle before emits exactly one button event,
\* and no cycle emits more than one, whatever the earlier codes were.
C1_EveryChangeEmitsOne ==
  /\ Len(ret.buttonEvents) <= 1
  /\ (cycle >= 2 /\ cruise_buttons # prev_cruise_buttons) => Len(ret.buttonEvents) = 1

\* C1 amended: from the second cycle on, every cycle whose button code differs
\* from the code of the cycle before, that code not being INIT, emits exactly
\* one button event; a change away from INIT emits none; no cycle emits more
\* than one.
C1_EveryChangeFromNonInitEmitsOne ==
  /\ Len(ret.buttonEvents) <= 1
  /\ (cycle >= 2 /\ cruise_buttons # prev_cruise_buttons
        /\ prev_cruise_buttons # CruiseButtons.INIT) => Len(ret.buttonEvents) = 1
  /\ (cycle >= 2 /\ prev_cruise_buttons = CruiseButtons.INIT) => ret.buttonEvents = <<>>

C1_Witness ==
  /\ cycle >= 2
  /\ prev_cruise_buttons = CruiseButtons.RES_ACCEL
  /\ cruise_buttons = CruiseButtons.UNPRESS
  /\ Len(ret.buttonEvents) = 1

\* C2: a cycle whose button code equals the code of the cycle before emits no
\* button event, whatever the speed, cruise-enabled and standstill values.
C2_UnchangedEmitsNothing ==
  (cycle >= 1 /\ cruise_buttons = prev_cruise_buttons) => ret.buttonEvents = <<>>

C2_Witness ==
  /\ cycle >= 2
  /\ cruise_buttons = CruiseButtons.RES_ACCEL
  /\ prev_cruise_buttons = CruiseButtons.RES_ACCEL
  /\ ret.cruiseState.enabled /\ ret.standstill
  /\ ret.buttonEvents = <<>>

\* C3: the first cycle of a session has INIT as its previous button code and
\* emits no button event, whatever its own button code is.
C3_FirstCycleEmitsNothing ==
  cycle = 1 => (prev_cruise_buttons = CruiseButtons.INIT /\ ret.buttonEvents = <<>>)

C3_Witness ==
  /\ cycle = 1
  /\ cruise_buttons = CruiseButtons.RES_ACCEL
  /\ ret.buttonEvents = <<>>

\* C4: an emitted button event has type unknown when the transition classifies
\* as accelCruise while the sample has cruise enabled and standstill; in every
\* other case it carries the classified type unchanged.
C4_SuppressResumeAtStandstill ==
  \A i \in DOMAIN ret.buttonEvents :
    LET classified ==
          IF LookedUp \in DOMAIN BUTTONS_DICT THEN BUTTONS_DICT[LookedUp]
          ELSE ButtonType.unknown
    IN  /\ (classified = ButtonType.accelCruise /\ ret.cruiseState.enabled /\ ret.standstill)
             => ret.buttonEvents[i].type = ButtonType.unknown
        /\ ~(classified = ButtonType.accelCruise /\ ret.cruiseState.enabled /\ ret.standstill)
             => ret.buttonEvents[i].type = classified

C4_Witness ==
  /\ cruise_buttons = CruiseButtons.RES_ACCEL
  /\ prev_cruise_buttons = CruiseButtons.UNPRESS
  /\ ret.cruiseState.enabled /\ ret.standstill /\ ~ret.cruiseState.standstill
  /\ Len(ret.buttonEvents) = 1
  /\ ret.buttonEvents[1].type = ButtonType.unknown

\* C5: in every cycle belowEngageSpeed is raised iff vEgo < minEnableSpeed,
\* resumeRequired iff the cruise standstill flag is set, belowSteerSpeed iff
\* vEgo < minSteerSpeed, each at most once: the events depend on the current
\* sample and the parameters only.
C5_ThresholdEventsExact ==
  cycle >= 1 =>
    /\ Has(ret.events, EventName.belowEngageSpeed) <=> (ret.vEgo < CP.minEnableSpeed)
    /\ Has(ret.events, EventName.resumeRequired) <=> ret.cruiseState.standstill
    /\ Has(ret.events, EventName.belowSteerSpeed) <=> (ret.vEgo < CP.minSteerSpeed)
    /\ \A e \in ThresholdEventNames : Count(ret.events, e) <= 1

C5_Witness ==
  /\ cycle >= 2
  /\ ret.vEgo = 3 * SCALE
  /\ CP.minEnableSpeed = 18 * MPH_TO_MS
  /\ CP.minSteerSpeed = 7 * MPH_TO_MS
  /\ ret.cruiseState.standstill
  /\ \A e \in ThresholdEventNames : Count(ret.events, e) = 1

\* C6 as stated: in the event list of a cycle the events made from the button
\* transition come first: no button event follows a threshold event.
C6_NoButtonEventAfterThreshold ==
  \A i, j \in DOMAIN ret.events :
    (i < j /\ ret.events[i] \in ThresholdEventNames) => ret.events[j] \notin ButtonEventNames

\* C6 amended: in the event list of a cycle the threshold events come in the
\* order belowEngageSpeed, resumeRequired, belowSteerSpeed, and the events made
\* from the button transition come after them: no threshold event follows a
\* button event.
C6_NoThresholdEventAfterButton ==
  \A i, j \in DOMAIN ret.events :
    i < j =>
      /\ ret.events[i] \in ButtonEventNames => ret.events[j] \notin ThresholdEventNames
      /\ ret.events[i] = EventName.belowSteerSpeed =>
           ret.events[j] \notin {EventName.belowEngageSpeed, EventName.resumeRequired}
      /\ ret.events[i] = EventName.resumeRequired =>
           ret.events[j] # EventName.belowEngageSpeed

C6_Witness ==
  /\ Len(ret.buttonEvents) = 1
  /\ \E i, j \in DOMAIN ret.events :
       /\ i < j
       /\ ret.events[i] = EventName.belowSteerSpeed
       /\ ret.events[j] = EventName.buttonCancel
  /\ Has(ret.events, EventName.belowEngageSpeed)
  /\ Has(ret.events, EventName.resumeRequired)

\* C7: a button transition (the code changed, the previous code is not INIT)
\* whose looked-up code is not in BUTTONS_DICT still emits one button event,
\* of type unknown.
C7_UnmappedEmitsUnknown ==
  (/\ cycle >= 1
   /\ cruise_buttons # prev_cruise_buttons
   /\ prev_cruise_buttons # CruiseButtons.INIT
   /\ LookedUp \notin DOMAIN BUTTONS_DICT)
    => /\ Len(ret.buttonEvents) = 1
       /\ ret.buttonEvents[1].type = ButtonType.unknown

C7_Witness ==
  /\ cruise_buttons = "UNDEFINED"
  /\ prev_cruise_buttons = CruiseButtons.CANCEL
  /\ Len(ret.buttonEvents) = 1
  /\ ret.buttonEvents[1].type = ButtonType.unknown
  /\ ret.buttonEvents[1].pressed

\* C8: from one cycle to the next with a speed that does not rise,
\* belowEngageSpeed is absent while vEgo >= minEnableSpeed, present once
\* vEgo < minEnableSpeed, and once present it stays present.
C8_BelowEngageSpeedNoFlicker ==
  [][ (cycle >= 1 /\ ret'.vEgo <= ret.vEgo) =>
        /\ (ret'.vEgo >= CP.minEnableSpeed) =>
             ~Has(ret'.events, EventName.belowEngageSpeed)
        /\ (ret'.vEgo < CP.minEnableSpeed) =>
             Has(ret'.events, EventName.belowEngageSpeed)
        /\ Has(ret.events, EventName.belowEngageSpeed) =>
             Has(ret'.events, EventName.belowEngageSpeed) ]_vars

C8_Witness ==
  /\ cycle >= 2
  /\ CP.minEnableSpeed = 18 * MPH_TO_MS
  /\ ret.vEgo = 3 * SCALE
  /\ Has(ret.events, EventName.belowEngageSpeed)

C10_FamilyModelsOdd ==
  ff_fn \in {"get_steer_feedforward_volt", "get_steer_feedforward_acadia"} =>
    /\ ff_out = -Call(ff_fn, -ff_angle, ff_speed)
    /\ ff_angle = 0 => ff_out = 0

C10_Witness ==
  /\ ff_fn = "get_steer_feedforward_volt"
  /\ ff_angle = -MaxAngle * SCALE
  /\ ff_speed > 0
  /\ ff_out < 0

\* C11: for every candidate that get_params gives lateralTuning.pid.kf = 1
\* because a family model is meant (VOLT, VOLT_NR, ACADIA, ACADIA_NR), the
\* selection hands back that family's model, not the default: the Volt model
\* for VOLT and VOLT_NR, the Acadia model for ACADIA and ACADIA_NR.
C11_FamilyKfSelectsFamilyModel ==
  (/\ ff_fn # NoFunction
   /\ CP.lateralTuning.which = "pid"
   /\ CP.lateralTuning.kf = SCALE)
    => /\ candidate \in {CAR.VOLT, CAR.VOLT_NR, CAR.ACADIA, CAR.ACADIA_NR}
       /\ candidate \in {CAR.VOLT, CAR.VOLT_NR} => ff_fn = "get_steer_feedforward_volt"
       /\ candidate \in {CAR.ACADIA, CAR.ACADIA_NR} => ff_fn = "get_steer_feedforward_acadia"

====
